---------------------------- MODULE Spec2Model ----------------------------
(***************************************************************************)
(* A model of the one-time-password library in src/src/hotp.ts and         *)
(* src/src/totp.ts: HOTP generation and verification (RFC 4226) and the    *)
(* time-based TOTP operations built on it (RFC 6238), including the        *)
(* grace-period verifier's loop over time-step counters.                   *)
(*                                                                         *)
(* Strings are sequences of UTF-16 code units, byte arrays are sequences   *)
(* of numbers in 0..255.  HMAC-SHA1 is an imported primitive; it is        *)
(* modelled by its real digests for the keys and counters of the model.    *)
(***************************************************************************)
EXTENDS Integers, Sequences, FiniteSets, TLC

VARIABLES
    now,                  \* the wall clock, Date.now(), in milliseconds
    pc,                   \* "idle", "loop" (inside the while loop), "done"
    call,                 \* the operation in progress and its arguments
    counter,              \* verifyTOTPWithGracePeriod: let counter
    maxCounterInclusive,  \* verifyTOTPWithGracePeriod: const maxCounterInclusive
    result,               \* how the call ended: a value or a thrown error
    checked,              \* counters handed to verifyHOTP by the call, in order
    hmacCalls             \* counters whose HMAC was computed by the call, in order

vars == <<now, pc, call, counter, maxCounterInclusive, result, checked, hmacCalls>>

---------------------------------------------------------------------------
(* Bounds of the model. *)

\* HOTP counters 0..MaxCounter (and the test file's 100 and 1000).
MaxCounter == 7

\* The clock takes the readings NowBase + k*TickMillis (+ TickMillis - 1),
\* k in 0..MaxTick.
MaxTick == 6

\* The lowest clock reading: the epoch itself, so that a grace period can reach
\* before time 0 and the window can start at a negative counter.
NowBase == 0

TickMillis == 15000

---------------------------------------------------------------------------
(* Bit operations on non-negative integers. *)

RECURSIVE BitAnd(_, _)
BitAnd(a, b) ==
    IF a = 0 \/ b = 0 THEN 0
    ELSE (IF a % 2 = 1 /\ b % 2 = 1 THEN 1 ELSE 0) + 2 * BitAnd(a \div 2, b \div 2)

RECURSIVE BitOr(_, _)
BitOr(a, b) ==
    IF a = 0 THEN b
    ELSE IF b = 0 THEN a
    ELSE (IF a % 2 = 1 \/ b % 2 = 1 THEN 1 ELSE 0) + 2 * BitOr(a \div 2, b \div 2)

RECURSIVE BitXor(_, _)
BitXor(a, b) ==
    IF a = 0 THEN b
    ELSE IF b = 0 THEN a
    ELSE (IF a % 2 = b % 2 THEN 0 ELSE 1) + 2 * BitXor(a \div 2, b \div 2)

---------------------------------------------------------------------------
(* Strings and byte arrays. *)

\* The code unit of the character '0'.
Zero == 48

IsDigitChar(ch) == ch >= Zero /\ ch <= Zero + 9

\* Number.prototype.toString() of a non-negative integer: its decimal digits,
\* no leading zero.
RECURSIVE NumberToString(_)
NumberToString(n) ==
    IF n < 10 THEN <<Zero + n>>
    ELSE Append(NumberToString(n \div 10), Zero + (n % 10))

PadStartNoPadding(s, targetLength, padChar) == s

\* String.prototype.padStart with a one-character pad string.
RECURSIVE PadStart(_, _, _)
PadStart(s, targetLength, padChar) ==
    IF Len(s) >= targetLength THEN s
    ELSE PadStart(<<padChar>> \o s, targetLength, padChar)

\* The UTF-8 bytes of one code point.
EncodeChar(cp) ==
    IF cp < 128 THEN <<cp>>
    ELSE IF cp < 2048 THEN <<192 + (cp \div 64), 128 + (cp % 64)>>
    ELSE IF cp < 65536
    THEN <<224 + (cp \div 4096), 128 + ((cp \div 64) % 64), 128 + (cp % 64)>>
    ELSE <<240 + (cp \div 262144), 128 + ((cp \div 4096) % 64),
           128 + ((cp \div 64) % 64), 128 + (cp % 64)>>

IsHighSurrogate(u) == u >= 55296 /\ u <= 56319

IsLowSurrogate(u) == u >= 56320 /\ u <= 57343

\* new TextEncoder().encode(s): a surrogate pair is one code point of four
\* bytes, a lone surrogate is encoded as U+FFFD.
RECURSIVE TextEncode(_)
TextEncode(s) ==
    IF s = <<>> THEN <<>>
    ELSE IF IsHighSurrogate(s[1]) /\ Len(s) >= 2 /\ IsLowSurrogate(s[2])
    THEN EncodeChar(65536 + (s[1] - 55296) * 1024 + (s[2] - 56320))
             \o TextEncode(SubSeq(s, 3, Len(s)))
    ELSE IF IsHighSurrogate(s[1]) \/ IsLowSurrogate(s[1])
    THEN EncodeChar(65533) \o TextEncode(Tail(s))
    ELSE EncodeChar(s[1]) \o TextEncode(Tail(s))

\* The accumulator of constantTimeEqual: the OR of the XOR of each byte pair
\* from index i on.
RECURSIVE XorFold(_, _, _, _)
XorFold(a, b, i, last) ==
    IF i > last THEN 0
    ELSE BitOr(BitXor(a[i], b[i]), XorFold(a, b, i + 1, last))

ConstantTimeEqualSkipsLast(a, b) ==
    IF Len(a) # Len(b) THEN FALSE
    ELSE XorFold(a, b, 1, Len(a) - 1) = 0

\* constantTimeEqual of @oslojs/crypto/subtle: arrays of unequal length are
\* unequal, otherwise every byte pair is folded into one accumulator.
ConstantTimeEqual(a, b) ==
    IF Len(a) # Len(b) THEN FALSE
    ELSE XorFold(a, b, 1, Len(a)) = 0

\* value >> BigInt(n * 8)
RECURSIVE ShiftRightBytes(_, _)
ShiftRightBytes(value, n) ==
    IF n = 0 THEN value ELSE ShiftRightBytes(value \div 256, n - 1)

\* 2^64 - 1 does not fit TLC's integers; the model's counters stay far below,
\* so only the lower limit of the encoder's range check can be reached.
IsUint64(value) == value >= 0

\* bigEndian.putUint64(counterBytes, counter, 0) on a fresh 8-byte array: the
\* encoder rejects a value that is no uint64 with a TypeError.
PutUint64(value) ==
    IF ~IsUint64(value) THEN [error |-> TRUE, bytes |-> <<>>]
    ELSE [error |-> FALSE,
          bytes |-> [i \in 1..8 |-> ShiftRightBytes(value, 8 - i) % 256]]

\* The value an 8-byte big-endian array encodes.
RECURSIVE BigEndianValue(_)
BigEndianValue(bytes) ==
    IF bytes = <<>> THEN 0
    ELSE 256 * BigEndianValue(SubSeq(bytes, 1, Len(bytes) - 1)) + bytes[Len(bytes)]

\* bigEndian.uint32(truncated, 0)
Uint32(bytes) ==
    bytes[1] * 16777216 + bytes[2] * 65536 + bytes[3] * 256 + bytes[4]

---------------------------------------------------------------------------
(* The keys of the model and their HMAC-SHA1 digests. *)

\* The 64-byte key of the test file.
secret ==
    <<99, 7, 135, 6, 228, 137, 27, 7, 133, 186, 66, 189, 35, 172, 221, 9, 228, 105, 51, 99, 190,
      250, 37, 164, 19, 70, 238, 11, 218, 176, 114, 76, 160, 143, 141, 38, 99, 14, 181, 108,
      163, 253, 206, 108, 192, 14, 248, 101, 109, 31, 235, 199, 53, 146, 135, 22, 61, 17, 52,
      32, 0, 122, 24, 28>>

\* The 20-byte ASCII key "12345678901234567890" of the RFC 4226 test vectors.
rfc4226Key ==
    <<49, 50, 51, 52, 53, 54, 55, 56, 57, 48, 49, 50, 51, 52, 53, 54, 55, 56, 57, 48>>

Keys == {secret, rfc4226Key}

\* HMAC-SHA1(secret, m) for the 8-byte big-endian messages m, by the value of m.
HmacSha1OfSecret ==
    0 :> <<178, 50, 140, 133, 146, 8, 42, 165, 127, 74, 157, 185, 79, 245, 18, 232, 107, 83, 126, 96>> @@
    1 :> <<184, 219, 47, 125, 118, 206, 159, 86, 197, 193, 76, 116, 214, 14, 116, 167, 238, 6, 247, 102>> @@
    2 :> <<205, 66, 66, 81, 251, 235, 107, 207, 54, 187, 61, 238, 113, 255, 45, 241, 113, 42, 237, 253>> @@
    3 :> <<166, 250, 63, 114, 205, 191, 127, 31, 153, 211, 250, 49, 213, 179, 186, 105, 22, 96, 17, 78>> @@
    4 :> <<108, 82, 230, 255, 88, 127, 245, 127, 248, 78, 5, 213, 188, 228, 94, 80, 179, 202, 77, 143>> @@
    5 :> <<229, 200, 154, 73, 35, 99, 136, 21, 211, 161, 186, 38, 108, 170, 225, 145, 113, 77, 55, 88>> @@
    6 :> <<238, 180, 96, 215, 49, 143, 111, 193, 104, 164, 215, 153, 201, 172, 220, 118, 115, 4, 221, 16>> @@
    7 :> <<201, 145, 136, 4, 188, 81, 187, 18, 96, 116, 196, 201, 38, 146, 43, 169, 242, 110, 115, 70>> @@
    8 :> <<237, 177, 25, 155, 169, 213, 140, 108, 40, 107, 100, 19, 224, 95, 57, 182, 24, 239, 127, 236>> @@
    9 :> <<17, 139, 82, 215, 3, 50, 53, 250, 56, 185, 17, 69, 255, 26, 9, 235, 42, 144, 244, 30>> @@
    10 :> <<67, 206, 98, 223, 202, 232, 241, 25, 177, 142, 20, 208, 182, 23, 160, 125, 72, 102, 211, 155>> @@
    11 :> <<118, 21, 227, 130, 129, 69, 145, 132, 137, 242, 74, 63, 135, 88, 213, 58, 203, 47, 226, 73>> @@
    12 :> <<127, 128, 11, 213, 192, 216, 133, 162, 139, 168, 75, 63, 136, 192, 114, 199, 48, 114, 113, 76>> @@
    13 :> <<228, 209, 44, 9, 42, 40, 7, 166, 46, 242, 63, 150, 114, 191, 203, 153, 79, 187, 185, 109>> @@
    14 :> <<109, 222, 18, 44, 150, 58, 125, 153, 108, 123, 54, 189, 184, 219, 205, 75, 91, 7, 197, 212>> @@
    15 :> <<236, 244, 174, 16, 6, 235, 120, 197, 126, 41, 180, 81, 94, 227, 138, 147, 174, 124, 226, 38>> @@
    100 :> <<126, 76, 121, 226, 0, 91, 85, 106, 41, 131, 126, 7, 71, 162, 249, 188, 139, 220, 198, 54>> @@
    1000 :> <<93, 25, 228, 13, 42, 201, 158, 202, 166, 182, 35, 22, 229, 36, 4, 151, 225, 148, 70, 11>>

\* HMAC-SHA1(rfc4226Key, m), by the value of m.
HmacSha1OfRfc4226Key ==
    0 :> <<204, 147, 207, 24, 80, 141, 148, 147, 76, 100, 182, 93, 139, 167, 102, 127, 183, 205, 228, 176>> @@
    1 :> <<117, 164, 138, 25, 212, 203, 225, 0, 100, 78, 138, 193, 57, 126, 234, 116, 122, 45, 51, 171>> @@
    2 :> <<11, 172, 183, 250, 8, 47, 239, 48, 120, 34, 17, 147, 139, 193, 197, 231, 4, 22, 255, 68>> @@
    3 :> <<102, 194, 130, 39, 208, 58, 45, 85, 41, 38, 47, 240, 22, 161, 230, 239, 118, 85, 126, 206>> @@
    4 :> <<169, 4, 201, 0, 166, 75, 53, 144, 152, 116, 179, 62, 97, 197, 147, 138, 142, 21, 237, 28>> @@
    5 :> <<163, 126, 120, 61, 123, 114, 51, 192, 131, 212, 246, 41, 38, 199, 162, 95, 35, 141, 3, 22>> @@
    6 :> <<188, 156, 210, 133, 97, 4, 44, 131, 242, 25, 50, 77, 60, 96, 114, 86, 192, 50, 114, 174>> @@
    7 :> <<164, 251, 150, 12, 11, 192, 110, 30, 171, 184, 4, 229, 179, 151, 205, 196, 180, 85, 150, 250>> @@
    8 :> <<27, 60, 137, 246, 94, 108, 158, 136, 48, 18, 5, 40, 35, 68, 63, 4, 139, 67, 50, 219>> @@
    9 :> <<22, 55, 64, 152, 9, 166, 121, 220, 105, 130, 7, 49, 12, 140, 127, 192, 114, 144, 217, 229>> @@
    10 :> <<155, 157, 213, 239, 154, 154, 210, 93, 215, 59, 249, 172, 206, 166, 111, 137, 161, 37, 232, 115>> @@
    11 :> <<202, 30, 4, 2, 193, 158, 219, 104, 37, 51, 158, 160, 20, 63, 11, 238, 84, 252, 13, 192>> @@
    12 :> <<26, 218, 244, 176, 191, 64, 70, 208, 86, 216, 240, 14, 74, 106, 150, 163, 107, 201, 152, 7>> @@
    13 :> <<63, 186, 127, 138, 36, 141, 135, 248, 166, 191, 7, 154, 68, 49, 53, 228, 144, 162, 187, 198>> @@
    14 :> <<5, 109, 16, 220, 44, 5, 32, 0, 204, 79, 149, 253, 207, 217, 34, 4, 51, 114, 190, 153>> @@
    15 :> <<116, 158, 63, 136, 45, 78, 218, 205, 203, 233, 159, 184, 173, 41, 132, 146, 141, 136, 251, 166>> @@
    100 :> <<49, 30, 68, 27, 152, 146, 107, 22, 64, 252, 149, 125, 198, 110, 192, 100, 134, 137, 169, 104>> @@
    1000 :> <<62, 235, 26, 134, 42, 195, 188, 241, 89, 210, 151, 102, 238, 193, 85, 241, 0, 225, 24, 246>>

\* hmac(SHA1, key, message) for the keys above.
Hmac(key, message) ==
    IF key = secret THEN HmacSha1OfSecret[BigEndianValue(message)]
    ELSE HmacSha1OfRfc4226Key[BigEndianValue(message)]

---------------------------------------------------------------------------
(* hotp.ts *)

\* An operation's outcome: "string" (value is the password), "true", "false",
\* or the error thrown, "TypeError" or "RangeError"; hmac lists the counters
\* whose HMAC the operation computed.
Outcome(outcome, value, hmac) ==
    [outcome |-> outcome, value |-> value, hmac |-> hmac]

DigitsOutOfRangeOffByOne(digits) == digits < 5 \/ digits > 8

\* if (digits < 6 || digits > 8)
DigitsOutOfRange(digits) == digits < 6 \/ digits > 8

\* const offset = HS[HS.byteLength - 1] & 0x0f;
\* const truncated = HS.slice(offset, offset + 4); truncated[0] &= 0x7f;
Truncate(HS) ==
    LET offset == BitAnd(HS[Len(HS)], 15)
        truncated == SubSeq(HS, offset + 1, offset + 4)
    IN  [truncated EXCEPT ![1] = BitAnd(truncated[1], 127)]

\* generateHOTP(key, counter, digits)
GenerateHOTP(key, counterValue, digits) ==
    IF DigitsOutOfRange(digits) THEN Outcome("TypeError", <<>>, <<>>)
    ELSE LET counterBytes == PutUint64(counterValue)
         IN  IF counterBytes.error THEN Outcome("TypeError", <<>>, <<>>)
             ELSE LET HS == Hmac(key, counterBytes.bytes)
                      SNum == Uint32(Truncate(HS))
                      D == SNum % (10 ^ digits)
                  IN  Outcome("string", PadStart(NumberToString(D), digits, Zero),
                              <<counterValue>>)

\* verifyHOTP(key, counter, digits, otp)
VerifyHOTP(key, counterValue, digits, otp) ==
    IF DigitsOutOfRange(digits) THEN Outcome("TypeError", <<>>, <<>>)
    ELSE IF Len(otp) # digits THEN Outcome("false", <<>>, <<>>)
    ELSE LET bytes == TextEncode(otp)
             expected == GenerateHOTP(key, counterValue, digits)
         IN  IF expected.outcome # "string" THEN expected
             ELSE IF ConstantTimeEqual(bytes, TextEncode(expected.value))
                  THEN Outcome("true", <<>>, expected.hmac)
                  ELSE Outcome("false", <<>>, expected.hmac)

---------------------------------------------------------------------------
(* totp.ts *)

\* Math.floor(a / b) for integers a and b # 0.  Every dividend of the model is
\* far below 2^53, where the floating-point quotient rounds to the floor of
\* the exact one.
FloorDiv(a, b) == IF b > 0 THEN a \div b ELSE (-a) \div (-b)

\* BigInt(Math.floor(millis / (intervalInSeconds * 1000))): a zero interval
\* makes the quotient Infinity or NaN, which BigInt rejects with a RangeError.
TimeCounter(millis, intervalInSeconds) ==
    IF intervalInSeconds = 0 THEN [error |-> TRUE, value |-> 0]
    ELSE [error |-> FALSE, value |-> FloorDiv(millis, intervalInSeconds * 1000)]

\* generateTOTP(key, intervalInSeconds, digits) with Date.now() = nowMillis
GenerateTOTP(key, nowMillis, intervalInSeconds, digits) ==
    IF DigitsOutOfRange(digits) THEN Outcome("TypeError", <<>>, <<>>)
    ELSE LET c == TimeCounter(nowMillis, intervalInSeconds)
         IN  IF c.error THEN Outcome("RangeError", <<>>, <<>>)
             ELSE GenerateHOTP(key, c.value, digits)

\* verifyTOTP(key, intervalInSeconds, digits, otp) with Date.now() = nowMillis
VerifyTOTP(key, nowMillis, intervalInSeconds, digits, otp) ==
    LET c == TimeCounter(nowMillis, intervalInSeconds)
    IN  IF c.error THEN Outcome("RangeError", <<>>, <<>>)
        ELSE VerifyHOTP(key, c.value, digits, otp)

GraceStartCounterInMillis(nowMillis, intervalInSeconds, gracePeriodInSeconds) ==
    TimeCounter(nowMillis - gracePeriodInSeconds, intervalInSeconds)

\* let counter = BigInt(Math.floor(
\*     (nowUnixMilliseconds - gracePeriodInSeconds * 1000) / (intervalInSeconds * 1000)))
GraceStartCounter(nowMillis, intervalInSeconds, gracePeriodInSeconds) ==
    TimeCounter(nowMillis - gracePeriodInSeconds * 1000, intervalInSeconds)

GraceMaxCounterOneMore(nowMillis, intervalInSeconds, gracePeriodInSeconds) ==
    LET c == TimeCounter(nowMillis + gracePeriodInSeconds * 1000, intervalInSeconds)
    IN  [c EXCEPT !.value = @ + 1]

\* const maxCounterInclusive = BigInt(Math.floor(
\*     (nowUnixMilliseconds + gracePeriodInSeconds * 1000) / (intervalInSeconds * 1000)))
GraceMaxCounter(nowMillis, intervalInSeconds, gracePeriodInSeconds) ==
    TimeCounter(nowMillis + gracePeriodInSeconds * 1000, intervalInSeconds)

LoopConditionExclusive(c, max) == c < max

\* while (counter <= maxCounterInclusive)
LoopCondition(c, max) == c <= max

GraceIterationReturnsFirst(key, c, digits, otp) ==
    LET valid == VerifyHOTP(key, c, digits, otp)
    IN  [returns |-> TRUE, outcome |-> valid.outcome, hmac |-> valid.hmac,
         counter |-> c + 1]

\* One pass of the loop body: const valid = verifyHOTP(key, counter, digits,
\* otp); if (valid) return true; counter++.  An error thrown by verifyHOTP
\* leaves the function as well.
GraceIteration(key, c, digits, otp) ==
    LET valid == VerifyHOTP(key, c, digits, otp)
    IN  [returns |-> valid.outcome # "false", outcome |-> valid.outcome,
         hmac |-> valid.hmac, counter |-> c + 1]

\* The while loop of verifyTOTPWithGracePeriod from counter c on: the outcome,
\* the counters it hands to verifyHOTP and the HMACs it computes.
RECURSIVE GraceLoopFrom(_, _, _, _, _)
GraceLoopFrom(key, c, max, digits, otp) ==
    IF ~LoopCondition(c, max)
    THEN [outcome |-> "false", checked |-> <<>>, hmac |-> <<>>]
    ELSE LET it == GraceIteration(key, c, digits, otp)
         IN  IF it.returns
             THEN [outcome |-> it.outcome, checked |-> <<c>>, hmac |-> it.hmac]
             ELSE LET rest == GraceLoopFrom(key, it.counter, max, digits, otp)
                  IN  [outcome |-> rest.outcome,
                       checked |-> <<c>> \o rest.checked,
                       hmac |-> it.hmac \o rest.hmac]

\* verifyTOTPWithGracePeriod(key, intervalInSeconds, digits, otp,
\* gracePeriodInSeconds) with Date.now() = nowMillis, as one function.
VerifyTOTPWithGracePeriod(key, nowMillis, intervalInSeconds, digits, otp, gracePeriodInSeconds) ==
    IF gracePeriodInSeconds < 0
    THEN [outcome |-> "TypeError", checked |-> <<>>, hmac |-> <<>>]
    ELSE LET first == GraceStartCounter(nowMillis, intervalInSeconds,
                                        gracePeriodInSeconds)
             max == GraceMaxCounter(nowMillis, intervalInSeconds,
                                    gracePeriodInSeconds)
         IN  IF first.error \/ max.error
             THEN [outcome |-> "RangeError", checked |-> <<>>, hmac |-> <<>>]
             ELSE GraceLoopFrom(key, first.value, max.value, digits, otp)

---------------------------------------------------------------------------
(* The inputs of the model. *)

Counters == (0..MaxCounter) \cup {100, 1000}

DigitCounts == 5..9

Intervals == {30, 60, 0, -30}

GracePeriods == {0, 15, 30, 60, 90, -15}

Nows == {NowBase + k * TickMillis + j : k \in 0..MaxTick, j \in {0, TickMillis - 1}}

\* s with the character at position i replaced by ch.
ReplaceAt(s, i, ch) == [s EXCEPT ![i] = ch]

\* Another digit character than ch.
OtherDigit(ch) == Zero + ((ch - Zero + 1) % 10)

\* A password and its near misses: one character changed (first, last, or in
\* place of the first a non-ASCII character of two or three UTF-8 bytes or a
\* lone surrogate), the first two replaced by a surrogate pair, one character
\* dropped or added.
Variants(s) ==
    {s, ReplaceAt(s, 1, OtherDigit(s[1])), ReplaceAt(s, Len(s), OtherDigit(s[Len(s)])),
     ReplaceAt(s, 1, 233), ReplaceAt(s, 1, 8364), ReplaceAt(s, 1, 55357),
     ReplaceAt(ReplaceAt(s, 1, 55357), 2, 56832),
     SubSeq(s, 1, Len(s) - 1), Append(s, Zero)}

\* Candidates for verifyHOTP: the passwords of counter c and of counter 0, of
\* every valid length, and their near misses.
HotpCandidates(key, c) ==
    UNION {Variants(GenerateHOTP(key, cc, dd).value) : cc \in {c, 0}, dd \in 6..8}

\* Candidates for the TOTP verifiers: the password of every counter of the
\* model and two near misses.
TotpCandidates(key, digits) ==
    LET dd == IF digits \in 6..8 THEN digits ELSE 6
        pw(c) == GenerateHOTP(key, c, dd).value
    IN  {pw(c) : c \in 0..MaxCounter}
            \cup {SubSeq(pw(4), 1, dd - 1), ReplaceAt(pw(3), dd, OtherDigit(pw(3)[dd]))}

---------------------------------------------------------------------------
(* The state machine: one synchronous call at a time. *)

NoCall ==
    [op |-> "none", key |-> <<>>, counter |-> 0, interval |-> 0, digits |-> 0,
     otp |-> <<>>, grace |-> 0, now |-> 0]

Pending == [outcome |-> "pending", value |-> <<>>]

Init ==
    /\ now \in Nows
    /\ pc = "idle"
    /\ call = NoCall
    /\ counter = 0
    /\ maxCounterInclusive = 0
    /\ result = Pending
    /\ checked = <<>>
    /\ hmacCalls = <<>>

\* The wall clock advances between calls.
Tick ==
    /\ pc = "idle"
    /\ \E t \in Nows : t > now /\ now' = t
    /\ UNCHANGED <<pc, call, counter, maxCounterInclusive, result, checked, hmacCalls>>

\* A call that runs to its end in one step.
Finish(c, r, checkedCounters) ==
    /\ pc' = "done"
    /\ call' = c
    /\ result' = [outcome |-> r.outcome, value |-> r.value]
    /\ checked' = checkedCounters
    /\ hmacCalls' = r.hmac
    /\ UNCHANGED <<now, counter, maxCounterInclusive>>

CallGenerateHOTP ==
    /\ pc = "idle"
    /\ \E key \in Keys, c \in Counters, digits \in DigitCounts :
         Finish([NoCall EXCEPT !.op = "generateHOTP", !.key = key, !.counter = c,
                               !.digits = digits],
                GenerateHOTP(key, c, digits), <<>>)

CallVerifyHOTP ==
    /\ pc = "idle"
    /\ \E key \in Keys, c \in Counters, digits \in DigitCounts :
         \E otp \in HotpCandidates(key, c) :
            Finish([NoCall EXCEPT !.op = "verifyHOTP", !.key = key, !.counter = c,
                                  !.digits = digits, !.otp = otp],
                   VerifyHOTP(key, c, digits, otp), <<c>>)

CallGenerateTOTP ==
    /\ pc = "idle"
    /\ \E key \in Keys, interval \in Intervals, digits \in DigitCounts :
         Finish([NoCall EXCEPT !.op = "generateTOTP", !.key = key,
                               !.interval = interval, !.digits = digits, !.now = now],
                GenerateTOTP(key, now, interval, digits), <<>>)

CallVerifyTOTP ==
    /\ pc = "idle"
    /\ \E key \in Keys, interval \in Intervals, digits \in DigitCounts :
         \E otp \in TotpCandidates(key, digits) :
            LET c == TimeCounter(now, interval)
            IN  Finish([NoCall EXCEPT !.op = "verifyTOTP", !.key = key,
                                      !.interval = interval, !.digits = digits,
                                      !.otp = otp, !.now = now],
                       VerifyTOTP(key, now, interval, digits, otp),
                       IF c.error THEN <<>> ELSE <<c.value>>)

\* verifyTOTPWithGracePeriod up to its while loop: the grace period is
\* validated, the clock is read once and the two bounds are computed.
CallVerifyTOTPWithGracePeriod ==
    /\ pc = "idle"
    /\ \E key \in Keys, interval \in Intervals, digits \in DigitCounts,
          grace \in GracePeriods :
         \E otp \in TotpCandidates(key, digits) :
            LET first == GraceStartCounter(now, interval, grace)
                max == GraceMaxCounter(now, interval, grace)
                failed == grace < 0 \/ first.error \/ max.error
            IN  /\ call' = [NoCall EXCEPT !.op = "verifyTOTPWithGracePeriod",
                                          !.key = key, !.interval = interval,
                                          !.digits = digits, !.otp = otp,
                                          !.grace = grace, !.now = now]
                /\ pc' = IF failed THEN "done" ELSE "loop"
                /\ result' = IF grace < 0 THEN [Pending EXCEPT !.outcome = "TypeError"]
                             ELSE IF failed THEN [Pending EXCEPT !.outcome = "RangeError"]
                             ELSE Pending
                /\ counter' = IF failed THEN 0 ELSE first.value
                /\ maxCounterInclusive' = IF failed THEN 0 ELSE max.value
                /\ checked' = <<>>
                /\ hmacCalls' = <<>>
                /\ UNCHANGED now

\* One evaluation of the loop condition, and the loop body when it holds.
GraceLoop ==
    /\ pc = "loop"
    /\ IF LoopCondition(counter, maxCounterInclusive)
       THEN LET it == GraceIteration(call.key, counter, call.digits, call.otp)
            IN  /\ checked' = Append(checked, counter)
                /\ hmacCalls' = hmacCalls \o it.hmac
                /\ pc' = IF it.returns THEN "done" ELSE "loop"
                /\ result' = IF it.returns THEN [Pending EXCEPT !.outcome = it.outcome]
                             ELSE result
                /\ counter' = IF it.returns THEN counter ELSE it.counter
       ELSE /\ pc' = "done"
            /\ result' = [Pending EXCEPT !.outcome = "false"]
            /\ UNCHANGED <<checked, hmacCalls, counter>>
    /\ UNCHANGED <<now, call, maxCounterInclusive>>

\* The caller takes the result; nothing of a call survives it.
Return ==
    /\ pc = "done"
    /\ pc' = "idle"
    /\ call' = NoCall
    /\ result' = Pending
    /\ counter' = 0
    /\ maxCounterInclusive' = 0
    /\ checked' = <<>>
    /\ hmacCalls' = <<>>
    /\ UNCHANGED now

Next ==
    \/ Tick
    \/ CallGenerateHOTP
    \/ CallVerifyHOTP
    \/ CallGenerateTOTP
    \/ CallVerifyTOTP
    \/ CallVerifyTOTPWithGracePeriod
    \/ GraceLoop
    \/ Return

Spec == Init /\ [][Next]_vars


---------------------------------------------------------------------------
(* What the properties below speak about. *)

\* The password generateHOTP returns for the call's key and digit count.
Password(c) == GenerateHOTP(call.key, c, call.digits).value

\* The decimal value of a string of digit characters.
RECURSIVE DecimalValue(_)
DecimalValue(s) ==
    IF s = <<>> THEN 0
    ELSE 10 * DecimalValue(SubSeq(s, 1, Len(s) - 1)) + (s[Len(s)] - Zero)

\* The 31-bit value dynamic truncation extracts for a key and a counter.
TruncatedValue(key, c) == Uint32(Truncate(Hmac(key, PutUint64(c).bytes)))

\* The time-step counters of the call in progress: of the clock reading, and
\* of the two ends of the grace window.
CounterNow == FloorDiv(call.now, call.interval * 1000)

CounterBefore == FloorDiv(call.now - call.grace * 1000, call.interval * 1000)

CounterAfter == FloorDiv(call.now + call.grace * 1000, call.interval * 1000)

Returned(op) == pc = "done" /\ call.op = op

\* A call of verifyTOTPWithGracePeriod with a positive period and a
\* non-negative grace period, in its loop or after it.
InGraceCall ==
    /\ pc \in {"loop", "done"}
    /\ call.op = "verifyTOTPWithGracePeriod"
    /\ call.interval > 0
    /\ call.grace >= 0

\* The step-by-step run of verifyTOTPWithGracePeriod ends as the function
\* VerifyTOTPWithGracePeriod says.
StepwiseAgreesWithFunction ==
    Returned("verifyTOTPWithGracePeriod") =>
        LET r == VerifyTOTPWithGracePeriod(call.key, call.now, call.interval,
                                           call.digits, call.otp, call.grace)
        IN  /\ result.outcome = r.outcome
            /\ checked = r.checked
            /\ hmacCalls = r.hmac

---------------------------------------------------------------------------
(* HOTP *)

\* C1: for a digit count in 6..8, verifyHOTP returns a boolean, never an
\* error, and returns true exactly when the candidate is the string
\* generateHOTP returns for the same key, counter and digit count.
VerifyHOTPAcceptsExactlyThePassword ==
    (Returned("verifyHOTP") /\ call.digits \in 6..8) =>
        /\ result.outcome \in {"true", "false"}
        /\ (result.outcome = "true") <=> (call.otp = Password(call.counter))

\* C1's case: a candidate of the right length that differs from the password
\* in exactly one character has been rejected.
SingleCharacterMissRejected ==
    /\ Returned("verifyHOTP")
    /\ call.digits \in 6..8
    /\ Len(call.otp) = call.digits
    /\ Cardinality({i \in 1..call.digits : call.otp[i] # Password(call.counter)[i]}) = 1
    /\ result.outcome = "false"

\* C2: for a digit count in 6..8, generateHOTP returns exactly `digits` digit
\* characters whose decimal value is the truncated 31-bit value modulo
\* 10^digits.
GenerateHOTPIsPaddedResidue ==
    (Returned("generateHOTP") /\ call.digits \in 6..8) =>
        /\ result.outcome = "string"
        /\ Len(result.value) = call.digits
        /\ \A i \in 1..Len(result.value) : IsDigitChar(result.value[i])
        /\ TruncatedValue(call.key, call.counter) <= 2147483647
        /\ DecimalValue(result.value)
             = TruncatedValue(call.key, call.counter) % (10 ^ call.digits)

\* C2's case: the residue has fewer decimal digits than asked for, and the
\* password returned starts with the padding character.
ShortResiduePadded ==
    /\ Returned("generateHOTP")
    /\ call.digits \in 6..8
    /\ TruncatedValue(call.key, call.counter) % (10 ^ call.digits)
         < 10 ^ (call.digits - 1)
    /\ result.outcome = "string"
    /\ result.value[1] = Zero

\* C3: for a digit count outside 6..8, generateHOTP and verifyHOTP end in the
\* digit-count error, return nothing and compute no HMAC, whatever the other
\* arguments are.
BadDigitsRejectedBeforeHmac ==
    (pc = "done" /\ call.op \in {"generateHOTP", "verifyHOTP"}
        /\ call.digits \notin 6..8) =>
        /\ result.outcome = "TypeError"
        /\ result.value = <<>>
        /\ hmacCalls = <<>>

\* C3's case: verifyHOTP was called with 5 digits and a candidate of another
\* length, and threw instead of returning false.
FiveDigitsVerifyThrew ==
    /\ Returned("verifyHOTP")
    /\ call.digits = 5
    /\ Len(call.otp) # call.digits
    /\ result.outcome = "TypeError"

---------------------------------------------------------------------------
(* TOTP *)

\* C4: for a period <= 0 (valid digits, grace >= 0) generateTOTP, verifyTOTP
\* and verifyTOTPWithGracePeriod each end in an error, returning neither a
\* password nor a boolean, with no HOTP computation.
NonPositivePeriodRejected ==
    (pc = "done"
        /\ call.op \in {"generateTOTP", "verifyTOTP", "verifyTOTPWithGracePeriod"}
        /\ call.interval <= 0 /\ call.digits \in 6..8 /\ call.grace >= 0) =>
        /\ result.outcome \in {"TypeError", "RangeError"}
        /\ hmacCalls = <<>>

\* C5: with a grace period of 0 and a positive period,
\* verifyTOTPWithGracePeriod ends as verifyTOTP does at the same clock reading
\* (the same boolean or the same error), and it checks the one counter
\* floor(now / (period * 1000)).
ZeroGraceIsVerifyTOTP ==
    (Returned("verifyTOTPWithGracePeriod") /\ call.interval > 0 /\ call.grace = 0) =>
        /\ result.outcome
             = VerifyTOTP(call.key, call.now, call.interval, call.digits, call.otp).outcome
        /\ checked = <<CounterNow>>

\* C5's case: a call with grace 0 has rejected a candidate of the right
\* length, having computed one HMAC.
ZeroGraceRejected ==
    /\ Returned("verifyTOTPWithGracePeriod")
    /\ call.interval > 0
    /\ call.grace = 0
    /\ Len(call.otp) = call.digits
    /\ Len(hmacCalls) = 1
    /\ result.outcome = "false"

\* The candidate is the password of the step before the current one and of no
\* other counter of the grace window.
OnlyPreviousStepMatches ==
    /\ call.otp = Password(CounterNow - 1)
    /\ \A c \in (CounterBefore..CounterAfter) \cup {CounterNow} :
         c # CounterNow - 1 => call.otp # Password(c)

\* C6: a candidate valid only in the step before the current one is accepted
\* under every grace period >= the period and rejected under grace period 0.
PreviousStepNeedsGrace ==
    (Returned("verifyTOTPWithGracePeriod") /\ call.interval > 0
        /\ call.digits \in 6..8 /\ call.grace >= 0 /\ OnlyPreviousStepMatches) =>
        /\ call.grace >= call.interval => result.outcome = "true"
        /\ call.grace = 0 => result.outcome = "false"

\* C7 as stated: the call checks at most three counters, each one of
\* counterNow, counterBefore and counterAfter.
ChecksOnlyThreePoints ==
    InGraceCall =>
        /\ Len(checked) <= 3
        /\ \A i \in 1..Len(checked) :
             checked[i] \in {CounterNow, CounterBefore, CounterAfter}

\* C7 as amended: the call checks the counters of the window in ascending
\* order without a gap, starting at counterBefore and never beyond
\* counterAfter; so it makes at most counterAfter - counterBefore + 1 checks.
ChecksWindowInOrder ==
    InGraceCall =>
        \A i \in 1..Len(checked) :
            /\ checked[i] = CounterBefore + (i - 1)
            /\ checked[i] <= CounterAfter

\* C7's case: more than three counters were checked, one of them strictly
\* between counterBefore and counterNow.
InteriorCounterChecked ==
    /\ InGraceCall
    /\ Len(checked) > 3
    /\ \E i \in 1..Len(checked) : CounterBefore < checked[i] /\ checked[i] < CounterNow

FirstMatchUpToNow ==
    CHOOSE m \in CounterBefore..CounterNow :
        /\ call.otp = Password(m)
        /\ \A c \in CounterBefore..(m - 1) : call.otp # Password(c)

AcceptsExactlyTheWindow ==
    (Returned("verifyTOTPWithGracePeriod") /\ call.interval > 0
        /\ call.digits \in 6..8 /\ call.grace >= 0) =>
        /\ result.outcome \in {"true", "false"}
        /\ (result.outcome = "true")
             <=> (\E c \in CounterBefore..CounterAfter : call.otp = Password(c))

\* The passes the loop can still make: a non-negative measure.
RemainingPasses == maxCounterInclusive - counter + 1

\* A step that stays in the loop checks one more counter and lowers the
\* measure; every other step from the loop leaves it.
LoopPassLowersMeasure ==
    (InGraceCall /\ pc = "loop") =>
        /\ RemainingPasses >= 0
        /\ pc' = "loop" =>
              /\ RemainingPasses' < RemainingPasses
              /\ Len(checked') = Len(checked) + 1
        /\ pc' # "loop" => pc' = "done"

\* The loop over the window ends: every pass lowers a non-negative integer
\* measure, so the loop makes at most counterAfter - counterBefore + 1 passes.
LoopEnds == [][LoopPassLowersMeasure]_vars

\* C10: a candidate accepted under a grace period is accepted, at the same
\* clock reading, under every longer grace period.
AcceptanceMonotoneInGrace ==
    (Returned("verifyTOTPWithGracePeriod") /\ call.interval > 0 /\ call.grace >= 0
        /\ result.outcome = "true") =>
        \A g \in GracePeriods :
            g >= call.grace =>
                VerifyTOTPWithGracePeriod(call.key, call.now, call.interval,
                                          call.digits, call.otp, g).outcome = "true"

=============================================================================
